---- MODULE Spec2Model ----
(***************************************************************************)
(* Model of JSONAnalyzer (src/json_analyzer.py): the loaded value, the     *)
(* three analyses (analyze_structure, validate_schema, find_duplicates)    *)
(* and the calls a client makes on one analyzer object.                    *)
(*                                                                         *)
(* A parsed JSON value is the pair <<type name, payload>>, the type name   *)
(* being Python's type(obj).__name__:                                      *)
(*   <<"NoneType", 0>>       None                                          *)
(*   <<"bool", b>>           True / False                                  *)
(*   <<"int", n>>            the int n                                     *)
(*   <<"float", n>>          the float n.0                                 *)
(*   <<"str", s>>            the string s                                  *)
(*   <<"list", <<v1,...>>>>  a list                                        *)
(*   <<"dict", <<<<k1,v1>>,...>>>>  a dict, entries in insertion order,    *)
(*                           keys pairwise distinct                        *)
(* Python strings are TLA+ strings; + on them is \o.                       *)
(***************************************************************************)
EXTENDS Bags, FiniteSets, Integers, Sequences, TLC

VARIABLES data, data0, loaded, stats, op, args, ret, checked

(***************************************************************************)
(* data     self.data (line 21, assigned by load at line 28)               *)
(* data0    the value json.load returned at line 28, kept for reference    *)
(* loaded   "new" after __init__, "loaded" once load returned True,        *)
(*          "failed" once it returned False (main exits, lines 208-209)    *)
(* stats    self.stats (line 22, assigned at line 84)                      *)
(* op       the method called last                                         *)
(* args     its required_keys argument, for validate_schema                *)
(* ret      what it returned                                               *)
(* checked  for the last find_duplicates: one entry per call of            *)
(*          check_array (line 134), in order                               *)
(***************************************************************************)

vars == <<data, data0, loaded, stats, op, args, ret, checked>>

(***************************************************************************)
(* Bounds of the explored inputs.                                          *)
(***************************************************************************)
MaxLen == 3          \* longest root array
MaxKeys == 2         \* most entries of a root object
MaxReq == 2          \* longest required_keys list

(***************************************************************************)
(* Values.                                                                 *)
(***************************************************************************)
PyNone == <<"NoneType", 0>>
PyBool(b) == <<"bool", b>>
PyInt(n) == <<"int", n>>
PyFloat(n) == <<"float", n>>
PyStr(s) == <<"str", s>>
PyList(items) == <<"list", items>>
PyDict(entries) == <<"dict", entries>>

TypeName(obj) == obj[1]
IsDict(obj) == obj[1] = "dict"
IsList(obj) == obj[1] = "list"
IsNone(obj) == obj[1] = "NoneType"

Max(a, b) == IF a >= b THEN a ELSE b

(***************************************************************************)
(* The values a loaded file may hold, within the bounds.                   *)
(***************************************************************************)
Scalars == {PyNone, PyBool(TRUE), PyInt(1), PyInt(2), PyFloat(1), PyStr("1")}

Keys == {"a", "b", "a.b", "a[0]"}

Lists(elems, n) == UNION {{PyList(s) : s \in [1..k -> elems]} : k \in 0..n}

Dicts(keys, vals, n) ==
    UNION {{PyDict(s) : s \in {e \in [1..k -> keys \X vals] :
                                 \A i, j \in 1..k : i # j => e[i][1] # e[j][1]}}
           : k \in 0..n}

ArrayElems ==
    {PyNone, PyInt(1), PyInt(2), PyFloat(1),
     PyList(<<PyInt(1), PyInt(1)>>),
     PyDict(<< <<"a", PyInt(1)>>, <<"b", PyNone>> >>),
     PyDict(<< <<"b", PyNone>>, <<"a", PyInt(1)>> >>)}

ObjectVals ==
    {PyNone, PyList(<<>>), PyList(<<PyList(<<>>)>>), PyDict(<< <<"b", PyList(<<>>)>> >>)}

JSONValues ==
    Scalars \cup Lists(ArrayElems, MaxLen) \cup Dicts(Keys, ObjectVals, MaxKeys)

ReqKeys == {"a", "b"}

RequiredKeyLists == UNION {[1..k -> ReqKeys] : k \in 0..MaxReq}

(***************************************************************************)
(* analyze_structure                                                       *)
(***************************************************************************)
NewStats(max_depth) ==
    [type_counts |-> EmptyBag, max_depth |-> max_depth, total_keys |-> 0,
     null_values |-> 0, arrays |-> 0, objects |-> 0]

\* variant: max_depth overwritten by each child's instead of maximised
MergeChild_lastdepth(st, child_stats) ==
    [type_counts |-> st.type_counts (+) child_stats.type_counts,
     max_depth   |-> child_stats.max_depth,
     total_keys  |-> st.total_keys + child_stats.total_keys,
     null_values |-> st.null_values + child_stats.null_values,
     arrays      |-> st.arrays + child_stats.arrays,
     objects     |-> st.objects + child_stats.objects]

MergeChild(st, child_stats) ==
    [type_counts |-> st.type_counts (+) child_stats.type_counts,
     max_depth   |-> Max(st.max_depth, child_stats.max_depth),
     total_keys  |-> st.total_keys + child_stats.total_keys,
     null_values |-> st.null_values + child_stats.null_values,
     arrays      |-> st.arrays + child_stats.arrays,
     objects     |-> st.objects + child_stats.objects]

ChildDepth(depth) == depth + 1

\* variant: "if not value" in place of "if value is None"
CountNullValue_falsy(st, value) ==
    IF \/ IsNone(value)
       \/ (IsList(value) \/ IsDict(value)) /\ Len(value[2]) = 0
       \/ TypeName(value) \in {"int", "float"} /\ value[2] = 0
    THEN [st EXCEPT !.null_values = @ + 1] ELSE st

CountNullValue(st, value) ==
    IF IsNone(value) THEN [st EXCEPT !.null_values = @ + 1] ELSE st

EnterDict(st, obj) ==
    [st EXCEPT !.objects = @ + 1, !.total_keys = @ + Len(obj[2])]

\* variant: an array counted structurally only
EnterList_structural(st) == [st EXCEPT !.arrays = @ + 1]

EnterList(st) ==
    [st EXCEPT !.arrays = @ + 1, !.type_counts = @ (+) SetToBag({"array"})]

\* variant: scalars counted under JSON's type names
CountScalar_json(st, obj) ==
    [st EXCEPT !.type_counts = @ (+) SetToBag({
        CASE TypeName(obj) = "NoneType" -> "null"
          [] TypeName(obj) = "str" -> "string"
          [] TypeName(obj) \in {"int", "float"} -> "number"
          [] OTHER -> TypeName(obj)})]

CountScalar(st, obj) ==
    [st EXCEPT !.type_counts = @ (+) SetToBag({TypeName(obj)})]

RECURSIVE recursive_analyze(_, _, _)
RECURSIVE analyze_dict_items(_, _, _, _, _)
RECURSIVE analyze_list_items(_, _, _, _, _)

\* for key, value in obj.items(): the entries from position i on
analyze_dict_items(obj, i, depth, max_depth, st) ==
    IF i > Len(obj[2]) THEN st
    ELSE LET value == obj[2][i][2]
             child_stats == recursive_analyze(value, ChildDepth(depth),
                                              Max(max_depth, ChildDepth(depth)))
         IN  analyze_dict_items(obj, i + 1, depth, max_depth,
                                MergeChild(CountNullValue(st, value), child_stats))

\* for item in obj: the elements from position i on
analyze_list_items(obj, i, depth, max_depth, st) ==
    IF i > Len(obj[2]) THEN st
    ELSE LET item == obj[2][i]
             child_stats == recursive_analyze(item, ChildDepth(depth),
                                              Max(max_depth, ChildDepth(depth)))
         IN  analyze_list_items(obj, i + 1, depth, max_depth,
                                MergeChild(st, child_stats))

recursive_analyze(obj, depth, max_depth) ==
    IF IsDict(obj)
    THEN analyze_dict_items(obj, 1, depth, max_depth, EnterDict(NewStats(max_depth), obj))
    ELSE IF IsList(obj)
    THEN analyze_list_items(obj, 1, depth, max_depth, EnterList(NewStats(max_depth)))
    ELSE CountScalar(NewStats(max_depth), obj)

analyze_structure(d) == recursive_analyze(d, 0, 0)

(***************************************************************************)
(* validate_schema                                                         *)
(***************************************************************************)
RootError == "Root must be an object for schema validation"

HasKey(d, key) == \E i \in 1..Len(d[2]) : d[2][i][1] = key

RECURSIVE validate_keys_dedup(_, _, _, _)
\* variant: a key already reported is not reported again
validate_keys_dedup(d, required_keys, i, results) ==
    IF i > Len(required_keys) THEN results
    ELSE LET key == required_keys[i] IN
         validate_keys_dedup(d, required_keys, i + 1,
            IF \E j \in 1..(i - 1) : required_keys[j] = key THEN results
            ELSE IF HasKey(d, key)
            THEN [results EXCEPT !.found_keys = Append(@, key)]
            ELSE [results EXCEPT !.missing_keys = Append(@, key), !.valid = FALSE])

RECURSIVE validate_keys(_, _, _, _)
validate_keys(d, required_keys, i, results) ==
    IF i > Len(required_keys) THEN results
    ELSE LET key == required_keys[i] IN
         validate_keys(d, required_keys, i + 1,
            IF HasKey(d, key)
            THEN [results EXCEPT !.found_keys = Append(@, key)]
            ELSE [results EXCEPT !.missing_keys = Append(@, key), !.valid = FALSE])

\* variant: the root is tested after the keys were looked up
validate_schema_late(d, required_keys) ==
    IF ~IsDict(d)
    THEN [valid |-> FALSE, missing_keys |-> required_keys,
          found_keys |-> <<>>, error |-> RootError]
    ELSE validate_keys(d, required_keys, 1,
                       [valid |-> TRUE, missing_keys |-> <<>>, found_keys |-> <<>>])

validate_schema(d, required_keys) ==
    LET results == [valid |-> TRUE, missing_keys |-> <<>>, found_keys |-> <<>>] IN
    IF ~IsDict(d)
    THEN [valid |-> FALSE, missing_keys |-> results.missing_keys,
          found_keys |-> results.found_keys, error |-> RootError]
    ELSE validate_keys(d, required_keys, 1, results)

(***************************************************************************)
(* find_duplicates                                                         *)
(***************************************************************************)
\* variant: a float printed like the integer of the same value
json_dumps_untyped(item) ==
    CASE item[1] = "NoneType" -> "null"
      [] item[1] = "bool"     -> IF item[2] THEN "true" ELSE "false"
      [] item[1] = "int"      -> ToString(item[2])
      [] item[1] = "float"    -> ToString(item[2])
      [] item[1] = "str"      -> "\"" \o item[2] \o "\""

\* json.dumps(item, sort_keys=True) of a scalar (the strings explored hold no
\* character that json.dumps escapes)
json_dumps(item) ==
    CASE item[1] = "NoneType" -> "null"
      [] item[1] = "bool"     -> IF item[2] THEN "true" ELSE "false"
      [] item[1] = "int"      -> ToString(item[2])
      [] item[1] = "float"    -> ToString(item[2]) \o ".0"
      [] item[1] = "str"      -> "\"" \o item[2] \o "\""

RECURSIVE repr(_)
RECURSIVE repr_items(_, _)

\* the ", "-joined reprs of the children from position i on
repr_items(obj, i) ==
    IF i > Len(obj[2]) THEN ""
    ELSE (IF i > 1 THEN ", " ELSE "")
         \o (IF IsDict(obj)
             THEN "'" \o obj[2][i][1] \o "': " \o repr(obj[2][i][2])
             ELSE repr(obj[2][i]))
         \o repr_items(obj, i + 1)

\* Python's repr, which str() of a list or a dict applies to the children
\* (the strings explored hold no quote and no character that repr escapes)
repr(item) ==
    CASE item[1] = "NoneType" -> "None"
      [] item[1] = "bool"     -> IF item[2] THEN "True" ELSE "False"
      [] item[1] = "int"      -> ToString(item[2])
      [] item[1] = "float"    -> ToString(item[2]) \o ".0"
      [] item[1] = "str"      -> "'" \o item[2] \o "'"
      [] item[1] = "list"     -> "[" \o repr_items(item, 1) \o "]"
      [] item[1] = "dict"     -> "{" \o repr_items(item, 1) \o "}"

str(item) == repr(item)

ItemStr(item) ==
    IF ~(IsList(item) \/ IsDict(item)) THEN json_dumps(item) ELSE str(item)

DuplicateRecord(path, item, first_idx, idx) ==
    [path |-> path, value |-> item, indices |-> <<first_idx, idx>>]

\* variant: seen[item_str] = idx on every element
SeenAfter_latest(seen, item_str, idx) ==
    (item_str :> idx) @@ seen

\* seen after the element at idx: only a new key is entered
SeenAfter(seen, item_str, idx) ==
    IF item_str \in DOMAIN seen THEN seen ELSE (item_str :> idx) @@ seen

RECURSIVE check_items(_, _, _, _, _)
\* for idx, item in enumerate(arr): the elements from index idx (0-based) on
check_items(arr, path, idx, seen, duplicates) ==
    IF idx >= Len(arr[2]) THEN duplicates
    ELSE LET item == arr[2][idx + 1]
             item_str == ItemStr(item)
         IN  check_items(arr, path, idx + 1, SeenAfter(seen, item_str, idx),
                IF item_str \in DOMAIN seen
                THEN Append(duplicates, DuplicateRecord(path, item, seen[item_str], idx))
                ELSE duplicates)

NoneSeen == [k \in {} |-> 0]

check_array(arr, path, duplicates) ==
    IF ~IsList(arr) THEN duplicates
    ELSE check_items(arr, path, 0, NoneSeen, duplicates)

\* variant: the key left out of the path
DictPath_nokey(path, key) == path \o "."

DictPath(path, key) == path \o "." \o key
ListPath(path, idx) == path \o "[" \o ToString(idx) \o "]"

\* acc.duplicates is the list the traversal appends to; acc.checked records,
\* for each call of check_array, its path, its array and the records it added.
RECURSIVE traverse(_, _, _)
RECURSIVE traverse_dict(_, _, _, _)
RECURSIVE traverse_list(_, _, _, _)

traverse_dict(obj, path, i, acc) ==
    IF i > Len(obj[2]) THEN acc
    ELSE traverse_dict(obj, path, i + 1,
                       traverse(obj[2][i][2], DictPath(path, obj[2][i][1]), acc))

traverse_list(obj, path, idx, acc) ==
    IF idx >= Len(obj[2]) THEN acc
    ELSE traverse_list(obj, path, idx + 1,
                       traverse(obj[2][idx + 1], ListPath(path, idx), acc))

traverse(obj, path, acc) ==
    IF IsDict(obj) THEN traverse_dict(obj, path, 1, acc)
    ELSE IF IsList(obj)
    THEN LET dups == check_array(obj, path, acc.duplicates) IN
         traverse_list(obj, path, 0,
            [duplicates |-> dups,
             checked |-> Append(acc.checked,
                [path |-> path, arr |-> obj,
                 emitted |-> SubSeq(dups, Len(acc.duplicates) + 1, Len(dups))])])
    ELSE acc

\* variant: the list of an earlier find_duplicates call kept
NewDuplicates_kept == IF op = "find_duplicates" THEN ret ELSE <<>>

\* duplicates = [] at the head of find_duplicates
NewDuplicates == <<>>

find_duplicates(d) ==
    traverse(d, "root", [duplicates |-> NewDuplicates, checked |-> <<>>])

(***************************************************************************)
(* The analyzer object and the calls made on it.                           *)
(***************************************************************************)
Init ==
    /\ data = PyNone
    /\ data0 = PyNone
    /\ loaded = "new"
    /\ stats = <<>>
    /\ op = "none"
    /\ args = <<>>
    /\ ret = <<>>
    /\ checked = <<>>

\* op, args, ret: the last call, its arguments and what it returned
Returns(o, a, r) ==
    /\ op' = o
    /\ args' = a
    /\ ret' = r

Load ==
    /\ loaded = "new"
    /\ \E d \in JSONValues :
          /\ data' = d
          /\ data0' = d
    /\ loaded' = "loaded"
    /\ Returns("load", <<>>, TRUE)
    /\ UNCHANGED <<stats, checked>>

LoadFails ==
    /\ loaded = "new"
    /\ loaded' = "failed"
    /\ Returns("load", <<>>, FALSE)
    /\ UNCHANGED <<data, data0, stats, checked>>

AnalyzeStructure ==
    /\ loaded = "loaded"
    /\ stats' = analyze_structure(data)
    /\ Returns("analyze_structure", <<>>, stats')
    /\ checked' = <<>>
    /\ UNCHANGED <<data, data0, loaded>>

ValidateSchema ==
    /\ loaded = "loaded"
    /\ \E required_keys \in RequiredKeyLists :
          Returns("validate_schema", required_keys, validate_schema(data, required_keys))
    /\ checked' = <<>>
    /\ UNCHANGED <<data, data0, loaded, stats>>

FindDuplicates ==
    /\ loaded = "loaded"
    /\ LET result == find_duplicates(data) IN
          /\ Returns("find_duplicates", <<>>, result.duplicates)
          /\ checked' = result.checked
    /\ UNCHANGED <<data, data0, loaded, stats>>

Next ==
    \/ Load
    \/ LoadFails
    \/ AnalyzeStructure
    \/ ValidateSchema
    \/ FindDuplicates

Spec == Init /\ [][Next]_vars

(***************************************************************************)
(* The tree of a value, described independently of the analyses: a         *)
(* position is the sequence of child indices leading from the root to a    *)
(* node.                                                                   *)
(***************************************************************************)
Children(v) ==
    IF IsDict(v) THEN [i \in 1..Len(v[2]) |-> v[2][i][2]]
    ELSE IF IsList(v) THEN v[2]
    ELSE <<>>

RECURSIVE Positions(_)
Positions(v) ==
    {<<>>} \cup UNION {{<<i>> \o p : p \in Positions(Children(v)[i])}
                       : i \in 1..Len(Children(v))}

RECURSIVE NodeAt(_, _)
NodeAt(v, p) == IF p = <<>> THEN v ELSE NodeAt(Children(v)[Head(p)], Tail(p))

Parent(p) == SubSeq(p, 1, Len(p) - 1)

NodesOfType(v, t) == {p \in Positions(v) : TypeName(NodeAt(v, p)) = t}

ScalarTypes == {"NoneType", "bool", "int", "float", "str"}

ScalarNodes(v) == {p \in Positions(v) : TypeName(NodeAt(v, p)) \in ScalarTypes}

MinOf(S) == CHOOSE x \in S : \A y \in S : x <= y
MaxOf(S) == CHOOSE x \in S : \A y \in S : x >= y

\* equal in type and in value; an object's value includes the order of its keys
SameValue(a, b) == a[1] = b[1] /\ a = b

Occurrences(arr, v) == {i \in 1..Len(arr[2]) : SameValue(arr[2][i], v)}

RecordsOf(c, v) == {k \in 1..Len(c.emitted) : SameValue(c.emitted[k].value, v)}

Called(o) == op = o

(***************************************************************************)
(* C1                                                                      *)
(***************************************************************************)
\* C1 as stated: an array holding the same value three or more times makes
\* find_duplicates emit exactly one record for that value.
C1_SingleRecordForRepeatedValue ==
    Called("find_duplicates") =>
        \A n \in 1..Len(checked) :
            \A i \in 1..Len(checked[n].arr[2]) :
                Cardinality(Occurrences(checked[n].arr, checked[n].arr[2][i])) >= 3
                => Cardinality(RecordsOf(checked[n], checked[n].arr[2][i])) = 1

\* C1, amended: for every array visited and every value it holds k >= 2 times
\* (elements equal in type and value, objects with their keys in the same
\* order), find_duplicates emits exactly k - 1 records for that value, one for each
\* occurrence after the first, each pairing the first occurrence with that
\* later one; so [1,1,1] yields the two records (0,1) and (0,2).
C1_RecordPerLaterOccurrence ==
    Called("find_duplicates") =>
        \A n \in 1..Len(checked) :
            LET c == checked[n] IN
            \A i \in 1..Len(c.arr[2]) :
                LET occ == Occurrences(c.arr, c.arr[2][i])
                    recs == RecordsOf(c, c.arr[2][i])
                IN  /\ Cardinality(recs) = Cardinality(occ) - 1
                    /\ {c.emitted[k].indices : k \in recs}
                         = {<<MinOf(occ) - 1, j - 1>> : j \in occ \ {MinOf(occ)}}

C1_Witness ==
    /\ Called("find_duplicates")
    /\ data = PyList(<<PyInt(1), PyInt(1), PyInt(1)>>)
    /\ Len(ret) = 2
    /\ ret[1].indices = <<0, 1>>
    /\ ret[2].indices = <<0, 2>>

(***************************************************************************)
(* C2                                                                      *)
(***************************************************************************)
\* C2 as stated: validate_schema on a root that is not an object returns
\* valid = false, empty key lists and the error text "root must be an object".
C2_ErrorTextAsStated ==
    (Called("validate_schema") /\ ~IsDict(data)) =>
        /\ ret.valid = FALSE
        /\ ret.found_keys = <<>>
        /\ ret.missing_keys = <<>>
        /\ "error" \in DOMAIN ret
        /\ ret.error = "root must be an object"

\* C2, amended: validate_schema on a root that is not an object returns, for
\* every list of required keys, valid = false, found_keys = [], missing_keys =
\* [] and an error field whose text is exactly "Root must be an object for
\* schema validation"; no required key is evaluated.
C2_NonObjectRootRejected ==
    (Called("validate_schema") /\ ~IsDict(data)) =>
        /\ ret.valid = FALSE
        /\ ret.found_keys = <<>>
        /\ ret.missing_keys = <<>>
        /\ "error" \in DOMAIN ret
        /\ ret.error = "Root must be an object for schema validation"

C2_Witness ==
    /\ Called("validate_schema")
    /\ data = PyList(<<PyInt(1), PyInt(2)>>)
    /\ args = <<"a">>
    /\ ret.valid = FALSE

(***************************************************************************)
(* C3                                                                      *)
(***************************************************************************)
\* C3 as stated: every key of type_counts is one of object, array, string,
\* number, bool, null.
C3_LabelsAsStated ==
    Called("analyze_structure") =>
        BagToSet(ret.type_counts) \subseteq
            {"object", "array", "string", "number", "bool", "null"}

\* C3, amended: every key of type_counts is one of array, str, int, float,
\* bool, NoneType: a scalar is counted under the name of its Python type (null
\* under "NoneType", a string under "str", an integer under "int", a float
\* under "float", a boolean under "bool"), once per node; e.g. [null] gives
\* type_counts["NoneType"] = 1.
C3_LabelsArePythonTypeNames ==
    Called("analyze_structure") =>
        /\ BagToSet(ret.type_counts) \subseteq ScalarTypes \cup {"array"}
        /\ \A t \in ScalarTypes :
              CopiesIn(t, ret.type_counts) = Cardinality(NodesOfType(data, t))

C3_Witness ==
    /\ Called("analyze_structure")
    /\ data = PyList(<<PyNone>>)
    /\ CopiesIn("NoneType", ret.type_counts) = 1

(***************************************************************************)
(* C4                                                                      *)
(***************************************************************************)
\* C4: max_depth is >= 0 and is the greatest depth at which a node occurs (the
\* root at depth 0, each descent adding 1); it is 0 exactly when the root is a
\* scalar or an empty container.
C4_MaxDepthIsDeepestNode ==
    Called("analyze_structure") =>
        /\ ret.max_depth >= 0
        /\ ret.max_depth = MaxOf({Len(p) : p \in Positions(data)})
        /\ (ret.max_depth = 0 <=> Len(Children(data)) = 0)

\* a nested empty array at depth 2
C4_Witness ==
    /\ Called("analyze_structure")
    /\ data = PyDict(<< <<"a", PyList(<<PyList(<<>>)>>)>> >>)
    /\ ret.max_depth = 2

(***************************************************************************)
(* C5                                                                      *)
(***************************************************************************)
\* C5: null_values is the number of object entries, anywhere in the tree,
\* whose value is null; a null array element or a null root adds nothing to it,
\* while every null is counted once in type_counts.
C5_NullValuesCountObjectEntries ==
    Called("analyze_structure") =>
        /\ ret.null_values =
              Cardinality({p \in NodesOfType(data, "NoneType") :
                              p # <<>> /\ IsDict(NodeAt(data, Parent(p)))})
        /\ CopiesIn(TypeName(PyNone), ret.type_counts)
              = Cardinality(NodesOfType(data, "NoneType"))

C5_Witness ==
    /\ Called("analyze_structure")
    /\ data = PyList(<<PyNone, PyDict(<< <<"a", PyInt(1)>>, <<"b", PyNone>> >>)>>)
    /\ ret.null_values = 1

(***************************************************************************)
(* C6                                                                      *)
(***************************************************************************)
\* C6: the counts of the scalar labels of type_counts, plus arrays, plus
\* objects, add up to the number of nodes of the tree; type_counts["array"] =
\* arrays; objects add nothing to type_counts; objects and arrays are the
\* numbers of object nodes and of array nodes.
C6_NodeAccounting ==
    Called("analyze_structure") =>
        LET tc == ret.type_counts
            scalar_sum == BagCardinality(tc) - CopiesIn("array", tc)
        IN  /\ scalar_sum + ret.arrays + ret.objects = Cardinality(Positions(data))
            /\ CopiesIn("array", tc) = ret.arrays
            /\ scalar_sum = Cardinality(ScalarNodes(data))
            /\ ret.objects = Cardinality(NodesOfType(data, "dict"))
            /\ ret.arrays = Cardinality(NodesOfType(data, "list"))

C6_Witness ==
    /\ Called("analyze_structure")
    /\ data = PyList(<<PyList(<<PyInt(1), PyInt(1)>>),
                       PyDict(<< <<"a", PyInt(1)>>, <<"b", PyNone>> >>)>>)
    /\ ret.arrays = 2
    /\ ret.objects = 1
    /\ CopiesIn("array", ret.type_counts) = 2

(***************************************************************************)
(* C7                                                                      *)
(***************************************************************************)
DictKeys(d) == {d[2][i][1] : i \in 1..Len(d[2])}

\* C7: for an object root, found_keys is the subsequence of required_keys that
\* are top-level keys and missing_keys the subsequence of those that are not,
\* both in input order and with repetitions kept, so their lengths add up to
\* that of required_keys; valid holds exactly when missing_keys is empty.
C7_FoundAndMissingPartitionRequired ==
    (Called("validate_schema") /\ IsDict(data)) =>
        LET Present(k) == k \in DictKeys(data)
            Absent(k) == k \notin DictKeys(data)
        IN  /\ ret.found_keys = SelectSeq(args, Present)
            /\ ret.missing_keys = SelectSeq(args, Absent)
            /\ Len(ret.found_keys) + Len(ret.missing_keys) = Len(args)
            /\ (ret.valid <=> ret.missing_keys = <<>>)

C7_Witness ==
    /\ Called("validate_schema")
    /\ data = PyDict(<< <<"a", PyNone>> >>)
    /\ args = <<"a", "a">>
    /\ ret.found_keys = <<"a", "a">>
    /\ ret.valid

(***************************************************************************)
(* C8                                                                      *)
(***************************************************************************)
\* what the call o with arguments a returns on a newly constructed analyzer
\* holding d
FreshResult(o, a, d) ==
    CASE o = "analyze_structure" -> recursive_analyze(d, 0, 0)
      [] o = "validate_schema"   -> validate_schema(d, a)
      [] o = "find_duplicates"   ->
            traverse(d, "root", [duplicates |-> <<>>, checked |-> <<>>]).duplicates

\* C8: after any sequence of calls, self.data is the value that was loaded,
\* and the last call, made on the analyzer as the earlier calls left it,
\* returned what it returns as the first call on a fresh analyzer holding that
\* value.
C8_CallsLeaveNoTrace ==
    loaded = "loaded" =>
        /\ data = data0
        /\ op \in {"analyze_structure", "validate_schema", "find_duplicates"}
              => ret = FreshResult(op, args, data0)

\* find_duplicates called after analyze_structure has written self.stats
C8_Witness ==
    /\ Called("find_duplicates")
    /\ stats # <<>>
    /\ data = PyList(<<PyInt(1), PyInt(2), PyInt(1)>>)
    /\ Len(ret) = 1

(***************************************************************************)
(* C9                                                                      *)
(***************************************************************************)
\* C9: every record emitted for an array A has indices (i, j) with i < j, A[i]
\* and A[j] equal in value and type, and i the lowest index of A holding that
\* value (values compared as the value model has them: an object's key order
\* is part of it); the record carries A's path and the element at j; an array
\* of pairwise distinct elements, or an empty array, yields no record.
C9_RecordsPairWithFirstOccurrence ==
    Called("find_duplicates") =>
        \A n \in 1..Len(checked) :
            LET c == checked[n]
                A == c.arr[2]
            IN  /\ \A k \in 1..Len(c.emitted) :
                      LET r == c.emitted[k]
                          i == r.indices[1]
                          j == r.indices[2]
                      IN  /\ 0 <= i /\ i < j /\ j < Len(A)
                          /\ SameValue(A[i + 1], A[j + 1])
                          /\ r.value = A[j + 1]
                          /\ r.path = c.path
                          /\ i + 1 = MinOf(Occurrences(c.arr, A[j + 1]))
                /\ (\A x, y \in 1..Len(A) : x # y => ~SameValue(A[x], A[y]))
                      => c.emitted = <<>>

C9_Witness ==
    /\ Called("find_duplicates")
    /\ data = PyList(<<PyInt(1), PyInt(2), PyInt(1)>>)
    /\ ret = <<[path |-> "root", value |-> PyInt(1), indices |-> <<0, 2>>]>>

(***************************************************************************)
(* C10                                                                     *)
(***************************************************************************)
\* the path the specification gives the node at position p of v
RECURSIVE LocationOf(_, _, _)
LocationOf(v, p, prefix) ==
    IF p = <<>> THEN prefix
    ELSE LocationOf(Children(v)[Head(p)], Tail(p),
            IF IsDict(v) THEN prefix \o "." \o v[2][Head(p)][1]
            ELSE prefix \o "[" \o ToString(Head(p) - 1) \o "]")

RECURSIVE AllKeys(_)
AllKeys(v) ==
    (IF IsDict(v) THEN DictKeys(v) ELSE {})
    \cup UNION {AllKeys(Children(v)[i]) : i \in 1..Len(Children(v))}

\* the pieces a key of Keys splits into around one of its characters
KeyPieces == {"", "a", "b", "a[0", "0]"}

HasPathSyntax(key) ==
    \E pre \in KeyPieces, post \in KeyPieces, m \in {".", "[", "]"} :
        key = pre \o m \o post

PathsDistinct == \A m, n \in 1..Len(checked) : m # n => checked[m].path # checked[n].path

\* C10 as stated: no two array nodes of a value are given the same path,
\* whatever characters the object keys contain.
C10_PathsAlwaysDistinct ==
    Called("find_duplicates") => PathsDistinct

\* C10, amended: the path find_duplicates assigns to an array starts from
\* "root", each object field appending ".key" and each array element
\* "[index]"; every array node is assigned one path; and when no object key
\* of the value contains '.', '[' or ']', two different array nodes are never
\* given the same path, so records from different arrays carry different paths.
C10_PathsLocateArrays ==
    Called("find_duplicates") =>
        /\ Len(checked) = Cardinality(NodesOfType(data, "list"))
        /\ {<<checked[n].path, checked[n].arr>> : n \in 1..Len(checked)}
              = {<<LocationOf(data, p, "root"), NodeAt(data, p)>>
                    : p \in NodesOfType(data, "list")}
        /\ (\A key \in AllKeys(data) : ~HasPathSyntax(key)) => PathsDistinct

C10_Witness ==
    /\ Called("find_duplicates")
    /\ data = PyDict(<< <<"a", PyList(<<PyList(<<>>)>>)>>, <<"b", PyList(<<>>)>> >>)
    /\ Len(checked) = 3
    /\ checked[2].path = "root.a[0]"
    /\ checked[3].path = "root.b"

====
